---- MODULE Spec2Model ----
(***************************************************************************)
(* Model of the REST tester MCP server (src/src/index.ts): the call_tool   *)
(* handler of the single tool 'endpoint', the credential selection read    *)
(* from the environment, and the result envelopes it returns.              *)
(***************************************************************************)
EXTENDS Integers, Sequences, FiniteSets, TLC

\* ------------------------------------------------------------------------
\* Bounds of the model
\* ------------------------------------------------------------------------
MaxCalls == 2
MaxLen == 4

Calls == 1..MaxCalls

\* ------------------------------------------------------------------------
\* JavaScript values.  Every value is a record tagged with t.  Strings that
\* are scanned character by character (the endpoint, the base URL, the URL)
\* are sequences of one-character strings in the field chars; all the other
\* strings are in the field v.
\* ------------------------------------------------------------------------
UNDEF == [t |-> "undefined"]
NULL == [t |-> "null"]
Str(s) == [t |-> "string", v |-> s]
CStr(cs) == [t |-> "string", chars |-> cs]
Num(n) == [t |-> "number", n |-> n]
Bool(b) == [t |-> "boolean", b |-> b]
Obj(m) == [t |-> "object", m |-> m]
Arr(a) == [t |-> "array", a |-> a]

EmptyMap == << >>

\* typeof x
TypeOf(x) ==
  IF x.t \in {"null", "object", "array"} THEN "object" ELSE x.t

\* ToBoolean(x), as used by &&, ||, !! and if
Truthy(x) ==
  CASE x.t \in {"undefined", "null"} -> FALSE
    [] x.t = "string" -> IF "chars" \in DOMAIN x THEN x.chars # << >> ELSE x.v # ""
    [] x.t = "number" -> x.n # 0
    [] x.t = "boolean" -> x.b
    [] OTHER -> TRUE

\* a && b and a || b (they return one of their operands)
And(a, b) == IF Truthy(a) THEN b ELSE a
Or(a, b) == IF Truthy(a) THEN a ELSE b

\* x.k for an own property k; undefined when x has no such property
Get(x, k) ==
  IF x.t = "object" /\ k \in DOMAIN x.m THEN x.m[k] ELSE UNDEF

\* The key of the i-th element of an array (elements are numbered from 0)
IndexKey(i) == ToString(i - 1)

\* The own enumerable properties that an object spread {...x} copies
OwnProps(x) ==
  CASE x.t = "object" -> x.m
    [] x.t = "array" ->
         [k \in {IndexKey(i) : i \in DOMAIN x.a} |->
            x.a[CHOOSE i \in DOMAIN x.a : IndexKey(i) = k]]
    [] OTHER -> EmptyMap

\* { ...x, [k]: v }
SpreadWith(x, k, v) ==
  Obj([j \in DOMAIN OwnProps(x) \cup {k} |-> IF j = k THEN v ELSE OwnProps(x)[j]])

\* JSON.stringify drops the properties of an object whose value is undefined;
\* the text is represented by the value it parses back to.
JsonObject(m) ==
  Obj([k \in {j \in DOMAIN m : m[j].t # "undefined"} |-> m[k]])

\* `${n}` for a number n
NumText(n) == ToString(n)

\* `${x}` for a string or undefined x
Template(x) == IF x.t = "undefined" THEN "undefined" ELSE x.v

\* ------------------------------------------------------------------------
\* Endpoint normalization
\* ------------------------------------------------------------------------

\* Index of the last character of the longest run of '/' that starts at i;
\* i - 1 when the character at i is not '/'.
RECURSIVE RunEnd(_, _)
RunEnd(s, i) ==
  IF i <= Len(s) /\ s[i] = "/" THEN RunEnd(s, i + 1) ELSE i - 1

\* The regular expression /^\/+|\/+$/ tried at position i: the index of the
\* last character of its match, 0 when it does not match there.
MatchAt(s, i) ==
  LET e == RunEnd(s, i) IN
    IF e < i THEN 0
    ELSE IF i = 1 THEN e
    ELSE IF e = Len(s) THEN e
    ELSE 0

\* s.replace(/^\/+|\/+$/g, ''), scanning from position i
RECURSIVE ReplaceFrom(_, _)
ReplaceFrom(s, i) ==
  IF i > Len(s) THEN << >>
  ELSE LET e == MatchAt(s, i) IN
         IF e # 0 THEN ReplaceFrom(s, e + 1)
         ELSE <<s[i]>> \o ReplaceFrom(s, i + 1)

\* The replace without the g flag: only the first match is removed
ReplaceFirstOnly(s) ==
  IF \E i \in 1..Len(s) : MatchAt(s, i) # 0
  THEN LET i == CHOOSE k \in 1..Len(s) :
                  MatchAt(s, k) # 0 /\ \A j \in 1..(k - 1) : MatchAt(s, j) = 0
       IN SubSeq(s, 1, i - 1) \o SubSeq(s, MatchAt(s, i) + 1, Len(s))
  ELSE s

StripSlashesNoGlobal(s) == ReplaceFirstOnly(s)

StripSlashes(s) == ReplaceFrom(s, 1)

\* `/${endpoint.replace(/^\/+|\/+$/g, '')}`
Normalize(endpoint) == <<"/">> \o StripSlashes(endpoint)

\* ------------------------------------------------------------------------
\* Credentials read from the environment
\* ------------------------------------------------------------------------
hasBasicAuthEither(e) == Or(e.AUTH_BASIC_USERNAME, e.AUTH_BASIC_PASSWORD)

hasBasicAuth(e) == And(e.AUTH_BASIC_USERNAME, e.AUTH_BASIC_PASSWORD)

hasBearerAuth(e) == Bool(Truthy(e.AUTH_BEARER))

hasApiKeyAuth(e) == And(e.AUTH_APIKEY_HEADER_NAME, e.AUTH_APIKEY_VALUE)

\* Buffer.from(s).toString('base64'): an encoding of s, kept symbolic
Base64(s) == "base64(" \o s \o ")"

\* `Basic ${base64Credentials}`
BasicHeaderValue(e) ==
  Str("Basic " \o Base64(Template(e.AUTH_BASIC_USERNAME) \o ":" \o Template(e.AUTH_BASIC_PASSWORD)))

\* `Bearer ${AUTH_BEARER}`
BearerHeaderValue(e) == Str("Bearer " \o Template(e.AUTH_BEARER))

\* The overlay written the other way round: { Authorization: ..., ...headers }
InjectAuthCallerWins(headers, e) ==
  LET own == OwnProps(headers)
      keep(k, v) == IF k \in DOMAIN own THEN headers ELSE SpreadWith(headers, k, v)
  IN IF Truthy(hasBasicAuth(e)) THEN keep("Authorization", BasicHeaderValue(e))
     ELSE IF Truthy(hasBearerAuth(e)) THEN keep("Authorization", BearerHeaderValue(e))
     ELSE IF Truthy(hasApiKeyAuth(e))
       THEN keep(e.AUTH_APIKEY_HEADER_NAME.v, e.AUTH_APIKEY_VALUE)
     ELSE headers

InjectAuth(headers, e) ==
  IF Truthy(hasBasicAuth(e))
    THEN SpreadWith(headers, "Authorization", BasicHeaderValue(e))
  ELSE IF Truthy(hasBearerAuth(e))
    THEN SpreadWith(headers, "Authorization", BearerHeaderValue(e))
  ELSE IF Truthy(hasApiKeyAuth(e))
    THEN SpreadWith(headers, e.AUTH_APIKEY_HEADER_NAME.v, e.AUTH_APIKEY_VALUE)
  ELSE headers

\* let authMethod = 'none'; if (hasBasicAuth()) ... else if ...
authMethod(e) ==
  IF Truthy(hasBasicAuth(e)) THEN "basic"
  ELSE IF Truthy(hasBearerAuth(e)) THEN "bearer"
  ELSE IF Truthy(hasApiKeyAuth(e)) THEN "apikey"
  ELSE "none"

\* ------------------------------------------------------------------------
\* Argument validation
\* ------------------------------------------------------------------------
Methods == {Str("GET"), Str("POST"), Str("PUT"), Str("DELETE")}

BodyMethods == {Str("POST"), Str("PUT")}

isValidEndpointArgs(args) ==
  IF TypeOf(args) # "object" \/ args.t = "null" THEN FALSE
  ELSE IF Get(args, "method") \notin Methods THEN FALSE
  ELSE IF TypeOf(Get(args, "endpoint")) # "string" THEN FALSE
  ELSE IF Get(args, "headers").t # "undefined"
          /\ TypeOf(Get(args, "headers")) # "object" THEN FALSE
  ELSE TRUE

\* ------------------------------------------------------------------------
\* Request construction
\* ------------------------------------------------------------------------

\* The body attached whatever the method
RequestDataAnyMethod(args) ==
  IF Truthy(Get(args, "body")) THEN Get(args, "body") ELSE UNDEF

\* config.data: set only for POST and PUT with a truthy body
RequestData(args) ==
  IF Get(args, "method") \in BodyMethods /\ Truthy(Get(args, "body"))
  THEN Get(args, "body")
  ELSE UNDEF

\* const config = { method, url, headers: headers || {} }; the body; the
\* authentication header
BuildConfig(args, e) ==
  [method |-> Get(args, "method"),
   url |-> Normalize(Get(args, "endpoint").chars),
   headers |-> InjectAuth(Or(Get(args, "headers"), Obj(EmptyMap)), e),
   data |-> RequestData(args)]

\* `${process.env.REST_BASE_URL}${normalizedEndpoint}`
FullUrl(e, path) == CStr(e.REST_BASE_URL.chars \o path)

\* ------------------------------------------------------------------------
\* The HTTP client
\* ------------------------------------------------------------------------

\* axios's default: only 2xx resolves
validateStatusDefault(status) == status >= 200 /\ status < 300

\* validateStatus: () => true
validateStatus(status) == TRUE

AxiosError(message, code) ==
  [class |-> "AxiosError", message |-> Str(message), code |-> code]

OtherError(message) ==
  [class |-> "TypeError", message |-> Str(message), code |-> UNDEF]

\* axios.isAxiosError(error)
isAxiosError(error) == error.class = "AxiosError"

\* How the client settles a received response under validateStatus
Settle(response) ==
  IF validateStatus(response.status)
  THEN [resolved |-> TRUE, response |-> response]
  ELSE [resolved |-> FALSE,
        error |-> AxiosError("Request failed with status code "
                               \o NumText(response.status),
                             Str("ERR_BAD_RESPONSE"))]

\* The request the client issues for config: the instance defaults merged
\* with the per-call config
MergedRequest(instance, config) ==
  [baseURL |-> instance.baseURL,
   url |-> config.url,
   method |-> config.method,
   headers |-> Obj([k \in DOMAIN instance.headers \cup DOMAIN OwnProps(config.headers) |->
                      IF k \in DOMAIN OwnProps(config.headers)
                      THEN OwnProps(config.headers)[k]
                      ELSE instance.headers[k]]),
   data |-> config.data]

\* The instance after a request: one that keeps the headers of the call in
\* its defaults
InstanceKeepingHeaders(instance, config) ==
  [instance EXCEPT !.headers =
     [k \in DOMAIN instance.headers \cup DOMAIN OwnProps(config.headers) |->
        IF k \in DOMAIN OwnProps(config.headers)
        THEN OwnProps(config.headers)[k]
        ELSE instance.headers[k]]]

\* The instance after a request: the handler never writes to it
InstanceAfterRequest(instance, config) == instance

\* axios.create({ baseURL, validateStatus })
CreateInstance(e) == [baseURL |-> e.REST_BASE_URL, headers |-> EmptyMap]

\* ------------------------------------------------------------------------
\* Result envelopes
\* ------------------------------------------------------------------------

\* The request description of the success envelope
SuccessRequest(e, config) ==
  JsonObject([url |-> FullUrl(e, config.url),
              method |-> config.method,
              headers |-> config.headers,
              body |-> config.data,
              authMethod |-> Str(authMethod(e))])

\* validation: { isError, messages }
Validation(status) ==
  JsonObject([isError |-> Bool(status >= 400),
              messages |-> IF status >= 400
                           THEN Arr(<<Str("Request failed with status " \o NumText(status))>>)
                           ELSE Arr(<<Str("Request completed successfully")>>)])

\* The value returned after a resolved request
SuccessResult(e, config, response, ms) ==
  [kind |-> "return",
   isError |-> UNDEF,
   text |-> JsonObject(
     [request |-> SuccessRequest(e, config),
      response |-> JsonObject([statusCode |-> Num(response.status),
                               statusText |-> response.statusText,
                               timing |-> Str(NumText(ms) \o "ms"),
                               headers |-> response.headers,
                               body |-> response.data]),
      validation |-> Validation(response.status)])]

\* The catch branch returning its envelope without the isError mark
CatchResultUnmarked(e, config, error) ==
  IF isAxiosError(error)
  THEN [kind |-> "return",
        isError |-> UNDEF,
        text |-> JsonObject(
          [error |-> JsonObject(
             [message |-> error.message,
              code |-> error.code,
              request |-> JsonObject([url |-> FullUrl(e, config.url),
                                      method |-> config.method,
                                      headers |-> config.headers,
                                      body |-> config.data])])])]
  ELSE [kind |-> "throw", error |-> error]

\* The catch branch: an envelope for an error of the client, a rethrow of
\* any other error
CatchResult(e, config, error) ==
  IF isAxiosError(error)
  THEN [kind |-> "return",
        isError |-> Bool(TRUE),
        text |-> JsonObject(
          [error |-> JsonObject(
             [message |-> error.message,
              code |-> error.code,
              request |-> JsonObject([url |-> FullUrl(e, config.url),
                                      method |-> config.method,
                                      headers |-> config.headers,
                                      body |-> config.data])])])]
  ELSE [kind |-> "throw", error |-> error]

\* throw new McpError(code, message)
McpError(code, message) ==
  [kind |-> "throw",
   error |-> [class |-> "McpError", message |-> Str(message), code |-> Str(code)]]

NoOutcome == [kind |-> "none"]

\* The two checks in the other order
RejectionArgumentsFirst(name, arguments) ==
  IF ~isValidEndpointArgs(arguments)
  THEN McpError("InvalidParams", "Invalid test endpoint arguments")
  ELSE IF name # "endpoint"
  THEN McpError("MethodNotFound", "Unknown tool: " \o name)
  ELSE NoOutcome

\* The two checks at the head of the handler: what it throws, if it throws
Rejection(name, arguments) ==
  IF name # "endpoint"
  THEN McpError("MethodNotFound", "Unknown tool: " \o name)
  ELSE IF ~isValidEndpointArgs(arguments)
  THEN McpError("InvalidParams", "Invalid test endpoint arguments")
  ELSE NoOutcome

\* A catch branch that issues the request once more
RequestsInCatchRetry(instance, config, error) ==
  IF isAxiosError(error) THEN <<MergedRequest(instance, config)>> ELSE << >>

\* The requests the catch branch issues: none
RequestsInCatch(instance, config, error) == << >>

\* ------------------------------------------------------------------------
\* State
\* ------------------------------------------------------------------------
VARIABLES
  env,            \* process.env as read when the module is loaded
  axiosInstance,  \* this.axiosInstance
  pc,             \* per call: "idle", "awaiting" (at the await), "done"
  request,        \* per call: request.params of the call
  config,         \* per call: the handler's config
  sent,           \* per call: the requests handed to the HTTP client
  http,           \* per call: how the HTTP exchange ended
  outcome         \* per call: what the handler returned or threw

vars == <<env, axiosInstance, pc, request, config, sent, http, outcome>>

NoRequest == [name |-> "", arguments |-> UNDEF]
NoConfig == [method |-> UNDEF, url |-> << >>, headers |-> UNDEF, data |-> UNDEF]
NoHttp == [kind |-> "none"]
\* Start of the process: the module throws unless REST_BASE_URL is set
InitOver(Envs) ==
  /\ env \in Envs
  /\ Truthy(env.REST_BASE_URL)
  /\ axiosInstance = CreateInstance(env)
  /\ pc = [c \in Calls |-> "idle"]
  /\ request = [c \in Calls |-> NoRequest]
  /\ config = [c \in Calls |-> NoConfig]
  /\ sent = [c \in Calls |-> << >>]
  /\ http = [c \in Calls |-> NoHttp]
  /\ outcome = [c \in Calls |-> NoOutcome]

\* ------------------------------------------------------------------------
\* The call_tool handler
\* ------------------------------------------------------------------------

\* The handler from its entry to the await of the HTTP request, or to a throw
CallTool(c, name, arguments) ==
  /\ pc[c] = "idle"
  /\ request' = [request EXCEPT ![c] = [name |-> name, arguments |-> arguments]]
  /\ IF Rejection(name, arguments) # NoOutcome
     THEN /\ outcome' = [outcome EXCEPT ![c] = Rejection(name, arguments)]
          /\ pc' = [pc EXCEPT ![c] = "done"]
          /\ UNCHANGED <<config, sent, axiosInstance>>
     ELSE /\ config' = [config EXCEPT ![c] = BuildConfig(arguments, env)]
          /\ sent' = [sent EXCEPT
                        ![c] = Append(@, MergedRequest(axiosInstance, config'[c]))]
          /\ axiosInstance' = InstanceAfterRequest(axiosInstance, config'[c])
          /\ pc' = [pc EXCEPT ![c] = "awaiting"]
          /\ UNCHANGED outcome
  /\ UNCHANGED <<env, http>>

\* The handler after the await, given how the request settled
Resume(c, settled, ms) ==
  /\ outcome' = [outcome EXCEPT
       ![c] = IF settled.resolved
              THEN SuccessResult(env, config[c], settled.response, ms)
              ELSE CatchResult(env, config[c], settled.error)]
  /\ sent' = [sent EXCEPT
       ![c] = IF settled.resolved THEN @
              ELSE @ \o RequestsInCatch(axiosInstance, config[c], settled.error)]
  /\ pc' = [pc EXCEPT ![c] = "done"]
  /\ UNCHANGED <<env, axiosInstance, request, config>>

\* The HTTP exchange completes with a response; the handler resumes
RequestCompletes(c, response, ms) ==
  /\ pc[c] = "awaiting"
  /\ http' = [http EXCEPT
       ![c] = [kind |-> "response", response |-> response, ms |-> ms]]
  /\ Resume(c, Settle(response), ms)

\* The request fails without a response; the handler resumes in its catch
RequestFails(c, error) ==
  /\ pc[c] = "awaiting"
  /\ http' = [http EXCEPT ![c] = [kind |-> "error", error |-> error]]
  /\ Resume(c, [resolved |-> FALSE, error |-> error], 0)

\* ------------------------------------------------------------------------
\* Inputs
\* ------------------------------------------------------------------------
BaseUrl == CStr(<<"h", ":">>)

Env(user, pass, bearer, keyName, keyValue) ==
  [REST_BASE_URL |-> BaseUrl,
   AUTH_BASIC_USERNAME |-> user,
   AUTH_BASIC_PASSWORD |-> pass,
   AUTH_BEARER |-> bearer,
   AUTH_APIKEY_HEADER_NAME |-> keyName,
   AUTH_APIKEY_VALUE |-> keyValue]

\* An environment variable is unset, set to the empty string, or set
EnvValues(value) == {UNDEF, Str(""), Str(value)}

AllEnvs ==
  {Env(u, p, b, n, v) :
     u \in EnvValues("user"), p \in EnvValues("pw"), b \in EnvValues("tok"),
     n \in EnvValues("X-API-Key"), v \in EnvValues("key")}

\* One environment per authentication mode, and one with every credential
ModeEnvs ==
  {Env(UNDEF, UNDEF, UNDEF, UNDEF, UNDEF),
   Env(Str("user"), Str("pw"), UNDEF, UNDEF, UNDEF),
   Env(UNDEF, UNDEF, Str("tok"), UNDEF, UNDEF),
   Env(UNDEF, UNDEF, UNDEF, Str("X-API-Key"), Str("key")),
   Env(Str("user"), Str("pw"), Str("tok"), Str("X-API-Key"), Str("key"))}

Response(status, statusText) ==
  [status |-> status, statusText |-> Str(statusText),
   headers |-> Obj(EmptyMap), data |-> Str("payload")]

Responses ==
  {Response(200, "OK"), Response(302, "Found"), Response(399, ""),
   Response(400, "Bad Request"), Response(404, "Not Found"),
   Response(500, "Internal Server Error")}

Timings == {0, 12}

Errors ==
  {AxiosError("connect ECONNREFUSED", Str("ECONNREFUSED")),
   AxiosError("Network Error", UNDEF),
   OtherError("Invalid URL")}

\* Arguments as they arrive in a JSON message: no property holds undefined
Arguments(method, endpoint, headers, body) ==
  JsonObject([method |-> method, endpoint |-> endpoint,
              headers |-> headers, body |-> body])

HeaderMap(k, v) == Obj([j \in {k} |-> v])

\* The inputs of the argument checks and of the body rule
MethodValues ==
  {UNDEF, Num(1), Str("GET"), Str("POST"), Str("PUT"), Str("DELETE"),
   Str("PATCH"), Str("get")}

EndpointValues == {UNDEF, NULL, Num(7), CStr(<< >>), CStr(<<"/", "a", "/">>)}

HeadersValues ==
  {UNDEF, NULL, Str("Accept: json"), Num(3), Arr(<<Str("v")>>), Obj(EmptyMap),
   HeaderMap("Accept", Str("json")), HeaderMap("Authorization", Str("caller")),
   HeaderMap("X-Count", Num(3)), HeaderMap("X-Nested", HeaderMap("a", Str("b")))}

BodyValues ==
  {UNDEF, NULL, Bool(FALSE), Num(0), Str(""), Str("raw"),
   Obj([name |-> Str("John")])}

CheckedArguments ==
  {UNDEF, NULL, Str("GET"), Num(1), Arr(<< >>)}
  \cup {Arguments(m, p, h, b) :
          m \in MethodValues, p \in EndpointValues,
          h \in HeadersValues, b \in BodyValues}

\* The inputs of the authentication overlay
AuthArguments ==
  {Arguments(Str("GET"), CStr(<<"a">>), h, UNDEF) :
     h \in {UNDEF, NULL,
            Obj([Authorization |-> Str("caller"), Accept |-> Str("json")]),
            HeaderMap("X-API-Key", Str("caller")),
            HeaderMap("authorization", Str("lower"))}}

\* The inputs of the normalization: every string over Chars up to MaxLen,
\* and three longer ones
Chars == {"/", "a", "b"}

EndpointStrings ==
  UNION {[1..n -> Chars] : n \in 0..MaxLen}
  \cup {<<"/", "u", "s", "e", "r", "s", "/">>,
        <<"u", "s", "e", "r", "s">>,
        <<"/", "/", "/", "a", "/", "b", "/", "/", "/">>}

NormArguments ==
  {Arguments(Str("GET"), CStr(s), UNDEF, UNDEF) : s \in EndpointStrings}

\* The inputs of the interleaved calls
ConcArguments ==
  {NULL,
   Arguments(Str("PATCH"), CStr(<<"a">>), UNDEF, UNDEF),
   Arguments(Str("GET"), CStr(<<"a">>), HeaderMap("Accept", Str("json")), UNDEF),
   Arguments(Str("POST"), CStr(<<"/", "b", "/">>), UNDEF, Obj([name |-> Str("John")]))}

ConcEnvs ==
  {Env(UNDEF, UNDEF, UNDEF, UNDEF, UNDEF),
   Env(UNDEF, UNDEF, Str("tok"), UNDEF, UNDEF)}

ToolNames == {"endpoint", "other"}

FewResponses == {Response(200, "OK"), Response(404, "Not Found")}

\* ------------------------------------------------------------------------
\* Specifications
\* ------------------------------------------------------------------------
NextOver(C, Names, Args, Resps, Times, Errs) ==
  \E c \in C :
    \/ /\ pc[c] = "idle"
       /\ \E name \in Names, arguments \in Args : CallTool(c, name, arguments)
    \/ /\ pc[c] = "awaiting"
       /\ \E response \in Resps, ms \in Times : RequestCompletes(c, response, ms)
    \/ /\ pc[c] = "awaiting"
       /\ \E error \in Errs : RequestFails(c, error)

\* One call, over the inputs of the argument checks
Init == InitOver(ModeEnvs)
Next == NextOver({1}, ToolNames, CheckedArguments, Responses, Timings, Errors)
Spec == Init /\ [][Next]_vars

\* One call, over every setting of the credential variables
InitAuth == InitOver(AllEnvs)
NextAuth == NextOver({1}, {"endpoint"}, AuthArguments, FewResponses, {0}, Errors)
SpecAuth == InitAuth /\ [][NextAuth]_vars

\* One call, over the endpoint strings
InitNorm == InitOver({Env(UNDEF, UNDEF, UNDEF, UNDEF, UNDEF)})
NextNorm == NextOver({1}, {"endpoint"}, NormArguments, FewResponses, {0}, Errors)
SpecNorm == InitNorm /\ [][NextNorm]_vars

\* MaxCalls calls, received and completed in any order
InitConc == InitOver(ConcEnvs)
NextConc == NextOver(Calls, ToolNames, ConcArguments, FewResponses, {0}, Errors)
SpecConc == InitConc /\ [][NextConc]_vars

\* ------------------------------------------------------------------------
\* Properties
\* ------------------------------------------------------------------------
Received(c) == pc[c] # "idle"
Dispatched(c) == sent[c] # << >>
Returned(c) == outcome[c].kind = "return"
Threw(c) == outcome[c].kind = "throw"
ArgsOf(c) == request[c].arguments

IsMcpError(o, code) ==
  /\ o.kind = "throw"
  /\ o.error.class = "McpError"
  /\ o.error.code = Str(code)

\* The envelope of a returned result, and the request description in it
Envelope(c) == outcome[c].text.m
EnvelopeRequest(c) ==
  IF "request" \in DOMAIN Envelope(c)
  THEN Envelope(c).request.m
  ELSE Envelope(c).error.m.request.m

\* The headers the caller supplied, as a mapping (empty when there are none)
CallerHeaders(c) == OwnProps(Get(ArgsOf(c), "headers"))

\* The headers of the request handed to the HTTP client
SentHeaders(c) == sent[c][1].headers.m

\* Arguments that are valid in the sense of the data model: an object whose
\* method is one of the four verbs, whose endpoint is a string and whose
\* headers, when present, map strings to strings
FlatStringMap(h) ==
  /\ h.t = "object"
  /\ \A k \in DOMAIN h.m : h.m[k].t = "string"

ValidInvocation(args) ==
  /\ args.t = "object"
  /\ Get(args, "method") \in {Str("GET"), Str("POST"), Str("PUT"), Str("DELETE")}
  /\ Get(args, "endpoint").t = "string"
  /\ "headers" \in DOMAIN args.m => FlatStringMap(args.m.headers)

\* C1: every call of the tool 'endpoint' whose arguments are not an object,
\* whose method is not GET/POST/PUT/DELETE, whose endpoint is not a string or
\* whose headers are present but not a flat mapping of strings to strings is
\* rejected with InvalidParams, and no HTTP request is issued for it.
C1_InvalidArgumentsRejected ==
  \A c \in Calls :
    (Received(c) /\ request[c].name = "endpoint" /\ ~ValidInvocation(ArgsOf(c)))
      => (IsMcpError(outcome[c], "InvalidParams") /\ sent[c] = << >>)

\* A credential variable is present when it is set to a non-empty string
Present(x) == x.t = "string" /\ x.v # ""

BasicActive(e) == Present(e.AUTH_BASIC_USERNAME) /\ Present(e.AUTH_BASIC_PASSWORD)
BearerActive(e) == ~BasicActive(e) /\ Present(e.AUTH_BEARER)
ApiKeyActive(e) ==
  /\ ~BasicActive(e) /\ ~BearerActive(e)
  /\ Present(e.AUTH_APIKEY_HEADER_NAME) /\ Present(e.AUTH_APIKEY_VALUE)
NoneActive(e) == ~BasicActive(e) /\ ~BearerActive(e) /\ ~ApiKeyActive(e)

\* The header a key of the sent request holds, when the overlay left it alone
LeftToCaller(c, k) ==
  IF k \in DOMAIN CallerHeaders(c)
  THEN k \in DOMAIN SentHeaders(c) /\ SentHeaders(c)[k] = CallerHeaders(c)[k]
  ELSE k \notin DOMAIN SentHeaders(c)

\* C2: for every setting of the five credential variables the request carries
\* the header of exactly one mode, chosen by the precedence Basic > Bearer >
\* ApiKey > None: Basic iff username and password are both present, Bearer iff
\* Basic is not active and the token is present, ApiKey iff neither is active
\* and header name and value are both present, otherwise none; the header of
\* a lower mode is not sent, and the envelope names the same mode.
C2_AuthPrecedence ==
  \A c \in Calls :
    Dispatched(c) =>
      /\ BasicActive(env) =>
           /\ SentHeaders(c)["Authorization"] = Str("Basic base64(user:pw)")
           /\ LeftToCaller(c, "X-API-Key")
      /\ BearerActive(env) =>
           /\ SentHeaders(c)["Authorization"] = Str("Bearer tok")
           /\ LeftToCaller(c, "X-API-Key")
      /\ ApiKeyActive(env) =>
           /\ SentHeaders(c)["X-API-Key"] = Str("key")
           /\ LeftToCaller(c, "Authorization")
      /\ NoneActive(env) =>
           /\ LeftToCaller(c, "Authorization")
           /\ LeftToCaller(c, "X-API-Key")
      /\ (Returned(c) /\ "request" \in DOMAIN Envelope(c)) =>
           EnvelopeRequest(c).authMethod =
             Str(CASE BasicActive(env) -> "basic"
                   [] BearerActive(env) -> "bearer"
                   [] ApiKeyActive(env) -> "apikey"
                   [] OTHER -> "none")

\* Basic and Bearer and ApiKey are all configured, and the request went out
C2_Witness ==
  /\ Present(env.AUTH_BASIC_USERNAME) /\ Present(env.AUTH_BASIC_PASSWORD)
  /\ Present(env.AUTH_BEARER)
  /\ Present(env.AUTH_APIKEY_HEADER_NAME) /\ Present(env.AUTH_APIKEY_VALUE)
  /\ Dispatched(1)
  /\ SentHeaders(1)["Authorization"] = Str("Basic base64(user:pw)")
  /\ "X-API-Key" \notin DOMAIN SentHeaders(1)
  /\ Returned(1)

\* C3: the normalized endpoint begins with exactly one '/', ends with '/'
\* only when it is '/', and normalizing it again leaves it unchanged;
\* '/users/' and 'users' give '/users', '///a/b///' gives '/a/b'.
C3_NormalizedEndpoint ==
  \A c \in Calls :
    Dispatched(c) =>
      LET s == Get(ArgsOf(c), "endpoint").chars
          n == sent[c][1].url
      IN /\ Len(n) >= 1 /\ n[1] = "/"
         /\ Len(n) >= 2 => n[2] # "/"
         /\ n[Len(n)] = "/" => n = <<"/">>
         /\ Normalize(n) = n
         /\ s = <<"/", "u", "s", "e", "r", "s", "/">> => n = <<"/", "u", "s", "e", "r", "s">>
         /\ s = <<"u", "s", "e", "r", "s">> => n = <<"/", "u", "s", "e", "r", "s">>
         /\ s = <<"/", "/", "/", "a", "/", "b", "/", "/", "/">> => n = <<"/", "a", "/", "b">>

\* The request for '///a/b///' went out to '/a/b'
C3_Witness ==
  /\ Dispatched(1)
  /\ Get(ArgsOf(1), "endpoint").chars = <<"/", "/", "/", "a", "/", "b", "/", "/", "/">>
  /\ sent[1][1].url = <<"/", "a", "/", "b">>

\* C4: the request carries a body only when the method is POST or PUT and
\* the caller supplied a body; for GET and DELETE neither the request nor the
\* request description of the envelope has a body, whatever body was supplied.
C4_BodyOnlyForPostPut ==
  \A c \in Calls :
    Dispatched(c) =>
      LET method == Get(ArgsOf(c), "method")
          body == Get(ArgsOf(c), "body")
      IN /\ sent[c][1].data # UNDEF =>
              /\ method \in {Str("POST"), Str("PUT")}
              /\ "body" \in DOMAIN ArgsOf(c).m
              /\ sent[c][1].data = body
         /\ method \in {Str("GET"), Str("DELETE")} =>
              /\ sent[c][1].data = UNDEF
              /\ Returned(c) => "body" \notin DOMAIN EnvelopeRequest(c)
         /\ Returned(c) =>
              ("body" \in DOMAIN EnvelopeRequest(c) <=> sent[c][1].data # UNDEF)

\* A GET with a body supplied has completed, and a body was never attached
C4_Witness ==
  /\ Get(ArgsOf(1), "method") = Str("GET")
  /\ Get(ArgsOf(1), "body") = Obj([name |-> Str("John")])
  /\ Dispatched(1) /\ Returned(1)
  /\ "response" \in DOMAIN Envelope(1)

\* The mode in force and the header it overlays
AuthHeaderName(e) ==
  IF ApiKeyActive(e) THEN e.AUTH_APIKEY_HEADER_NAME.v ELSE "Authorization"

AuthHeaderNames(e) == IF NoneActive(e) THEN {} ELSE {AuthHeaderName(e)}

\* C5: the headers sent are the caller's headers overlaid with exactly one
\* header for the active mode: a caller header of the same name is
\* overwritten by the auth value, every other caller header is kept
\* unchanged, and with no mode active the headers are the caller's.
C5_AuthOverlay ==
  \A c \in Calls :
    Dispatched(c) =>
      /\ DOMAIN SentHeaders(c) = DOMAIN CallerHeaders(c) \cup AuthHeaderNames(env)
      /\ \A k \in DOMAIN CallerHeaders(c) \ AuthHeaderNames(env) :
           SentHeaders(c)[k] = CallerHeaders(c)[k]
      /\ BasicActive(env) =>
           SentHeaders(c)["Authorization"] = Str("Basic base64(user:pw)")
      /\ BearerActive(env) => SentHeaders(c)["Authorization"] = Str("Bearer tok")
      /\ ApiKeyActive(env) =>
           SentHeaders(c)[env.AUTH_APIKEY_HEADER_NAME.v] = env.AUTH_APIKEY_VALUE
      /\ Returned(c) => OwnProps(EnvelopeRequest(c).headers) = SentHeaders(c)

\* The caller's own Authorization header was overwritten, its Accept kept
C5_Witness ==
  /\ Dispatched(1)
  /\ BearerActive(env)
  /\ "Authorization" \in DOMAIN CallerHeaders(1)
  /\ CallerHeaders(1)["Authorization"] = Str("caller")
  /\ SentHeaders(1)["Authorization"] = Str("Bearer tok")
  /\ SentHeaders(1)["Accept"] = Str("json")

\* C6: every completed HTTP exchange, whatever its status, yields a Success
\* envelope (request, response, validation), never a transport-failure result
\* or a thrown error; validation.isError is true iff the status is >= 400 and
\* validation.messages is ["Request failed with status <code>"] then, and
\* ["Request completed successfully"] otherwise.
C6_AnyStatusIsSuccessEnvelope ==
  \A c \in Calls :
    http[c].kind = "response" =>
      LET status == http[c].response.status IN
        /\ Returned(c)
        /\ outcome[c].isError = UNDEF
        /\ DOMAIN Envelope(c) = {"request", "response", "validation"}
        /\ Envelope(c).response.m.statusCode = Num(status)
        /\ Envelope(c).validation.m.isError = Bool(status >= 400)
        /\ Envelope(c).validation.m.messages =
             Arr(<<Str(IF status >= 400
                       THEN "Request failed with status " \o ToString(status)
                       ELSE "Request completed successfully")>>)
        /\ status = 404 =>
             Envelope(c).validation.m =
               [isError |-> Bool(TRUE),
                messages |-> Arr(<<Str("Request failed with status 404")>>)]
        /\ status = 200 =>
             Envelope(c).validation.m =
               [isError |-> Bool(FALSE),
                messages |-> Arr(<<Str("Request completed successfully")>>)]

\* A 404 came back and was reported in a Success envelope marked isError
C6_Witness ==
  /\ http[1].kind = "response"
  /\ http[1].response.status = 404
  /\ Returned(1)
  /\ Envelope(1).validation.m.isError = Bool(TRUE)

TransportFailed(c) == http[c].kind = "error" /\ isAxiosError(http[c].error)

\* The request description of a failed call: url, method, the headers as
\* sent (auth header applied), and the body when one was attached
DescribesAttempt(c, description) ==
  /\ DOMAIN description =
       {"url", "method", "headers"} \cup (IF sent[c][1].data = UNDEF THEN {} ELSE {"body"})
  /\ description.url = CStr(env.REST_BASE_URL.chars \o sent[c][1].url)
  /\ description.method = sent[c][1].method
  /\ OwnProps(description.headers) = SentHeaders(c)
  /\ \A k \in AuthHeaderNames(env) : k \in DOMAIN OwnProps(description.headers)
  /\ sent[c][1].data # UNDEF => description.body = sent[c][1].data

\* C7 as stated: a transport failure returns a result marked isError whose
\* envelope has exactly the two top-level fields error = {message, code} and
\* request = the description of the attempted call, and no response field.
C7_TwoTopLevelFields ==
  \A c \in Calls :
    TransportFailed(c) =>
      /\ Returned(c)
      /\ outcome[c].isError = Bool(TRUE)
      /\ DOMAIN Envelope(c) = {"error", "request"}
      /\ DOMAIN Envelope(c).error.m = {"message", "code"}
      /\ DescribesAttempt(c, Envelope(c).request.m)

\* C7 as the code has it: a transport failure returns (does not throw) a
\* result marked isError whose envelope has the single top-level field error,
\* holding the message, the code when the failure has one, and, nested in it,
\* the description of the attempted call; there is no response field.
C7_TransportFailureEnvelope ==
  \A c \in Calls :
    TransportFailed(c) =>
      /\ Returned(c)
      /\ outcome[c].isError = Bool(TRUE)
      /\ DOMAIN Envelope(c) = {"error"}
      /\ DOMAIN Envelope(c).error.m =
           {"message", "request"}
             \cup (IF http[c].error.code = UNDEF THEN {} ELSE {"code"})
      /\ Envelope(c).error.m.message = http[c].error.message
      /\ http[c].error.code # UNDEF => Envelope(c).error.m.code = http[c].error.code
      /\ DescribesAttempt(c, Envelope(c).error.m.request.m)

\* A refused connection on a call that carried a bearer token
C7_Witness ==
  /\ TransportFailed(1)
  /\ http[1].error.code = Str("ECONNREFUSED")
  /\ BearerActive(env)
  /\ Returned(1)
  /\ Envelope(1).error.m.request.m.headers.m["Authorization"] = Str("Bearer tok")

\* Everything the model holds about call c
CallState(c) == <<pc[c], request[c], config[c], sent[c], http[c], outcome[c]>>

Rejected(c) ==
  /\ pc[c] = "done"
  /\ Threw(c)
  /\ outcome[c].error.class = "McpError"

\* Some arguments the tool accepts
SomeValidArguments == Arguments(Str("GET"), CStr(<<"a">>), UNDEF, UNDEF)

C8_UnknownToolRejected ==
  \A c \in Calls :
    (Received(c) /\ request[c].name # "endpoint") =>
      /\ pc[c] = "done"
      /\ IsMcpError(outcome[c], "MethodNotFound")
      /\ sent[c] = << >>
      /\ http[c] = NoHttp

C8_ServerStillServes ==
  \A c \in Calls :
    Rejected(c) =>
      /\ axiosInstance = CreateInstance(env)
      /\ \A d \in Calls :
           pc[d] = "idle" => ENABLED CallTool(d, "endpoint", SomeValidArguments)

C8_RejectionTouchesNothingElse ==
  \A c \in Calls :
    (pc[c] = "idle" /\ Rejected(c)') =>
      /\ env' = env
      /\ axiosInstance' = axiosInstance
      /\ sent' = sent
      /\ \A d \in Calls \ {c} : CallState(d)' = CallState(d)

\* C8: a call whose tool name is not 'endpoint' is rejected with
\* MethodNotFound whatever its arguments, with no HTTP request issued; a
\* rejection (MethodNotFound or InvalidParams) changes nothing but the
\* rejected call's own record, and the calls that follow are still accepted.
C8_UnknownTool ==
  /\ [](C8_UnknownToolRejected /\ C8_ServerStillServes)
  /\ [][C8_RejectionTouchesNothingElse]_vars

\* An unknown tool called with valid arguments was rejected, and the next
\* call went out
C8_Witness ==
  /\ request[1].name = "other"
  /\ isValidEndpointArgs(ArgsOf(1))
  /\ IsMcpError(outcome[1], "MethodNotFound")
  /\ pc[2] = "done" /\ Returned(2)

\* The terminal outcomes of a call
CompletedSuccess(c) ==
  /\ Returned(c) /\ outcome[c].isError = UNDEF
  /\ "response" \in DOMAIN Envelope(c)
  /\ http[c].kind = "response"

CompletedTransportFailure(c) ==
  /\ Returned(c) /\ outcome[c].isError = Bool(TRUE)
  /\ "error" \in DOMAIN Envelope(c)
  /\ TransportFailed(c)

Faulted(c) ==
  /\ Threw(c) /\ outcome[c].error.class # "McpError"
  /\ http[c].kind = "error" /\ outcome[c].error = http[c].error

C9_Stages ==
  \A c \in Calls :
    /\ pc[c] \in {"idle", "awaiting", "done"}
    /\ pc[c] = "idle" => (sent[c] = << >> /\ outcome[c] = NoOutcome /\ http[c] = NoHttp)
    /\ pc[c] = "awaiting" => (Len(sent[c]) = 1 /\ outcome[c] = NoOutcome /\ http[c] = NoHttp)
    /\ pc[c] = "done" =>
         \/ Rejected(c) /\ sent[c] = << >> /\ http[c] = NoHttp
         \/ ~Rejected(c) /\ Len(sent[c]) = 1
              /\ \/ CompletedSuccess(c)
                 \/ CompletedTransportFailure(c)
                 \/ Faulted(c)
    /\ (http[c].kind = "response" /\ http[c].response.status >= 400) => Len(sent[c]) = 1
    /\ http[c].kind = "error" => Len(sent[c]) = 1

C9_Steps ==
  \A c \in Calls :
    /\ pc[c] = "idle" => pc'[c] \in {"idle", "awaiting", "done"}
    /\ pc[c] = "awaiting" => (pc'[c] \in {"awaiting", "done"} /\ request'[c] = request[c])
    /\ pc[c] = "done" => CallState(c)' = CallState(c)
    /\ (pc[c] = "idle" /\ pc'[c] = "done") => Rejected(c)'
    /\ (pc[c] = "awaiting" /\ pc'[c] = "done") => ~Rejected(c)'

\* C9: a call goes from received either to rejected, or through dispatch to
\* exactly one of success, transport failure or fault; it issues no HTTP
\* request when rejected and exactly one otherwise, also after an error
\* status or a transport failure, and its terminal outcome never changes.
C9_SingleAttempt == []C9_Stages /\ [][C9_Steps]_vars

\* One call ended in a transport failure, the other in a 404, one request each
C9_Witness ==
  /\ CompletedTransportFailure(1) /\ Len(sent[1]) = 1
  /\ CompletedSuccess(2) /\ http[2].response.status = 404 /\ Len(sent[2]) = 1

\* What a call gives when it is the only call of the process
AloneRequest(c) ==
  MergedRequest(CreateInstance(env), BuildConfig(ArgsOf(c), env))

AloneOutcome(c) ==
  IF Rejection(request[c].name, ArgsOf(c)) # NoOutcome
  THEN Rejection(request[c].name, ArgsOf(c))
  ELSE IF http[c].kind = "response"
  THEN SuccessResult(env, BuildConfig(ArgsOf(c), env), http[c].response, http[c].ms)
  ELSE CatchResult(env, BuildConfig(ArgsOf(c), env), http[c].error)

C10_OwnInputsOnly ==
  /\ axiosInstance = CreateInstance(env)
  /\ \A c \in Calls :
       /\ Dispatched(c) => sent[c] = <<AloneRequest(c)>>
       /\ pc[c] = "done" => outcome[c] = AloneOutcome(c)
  /\ \A c, d \in Calls :
       (pc[c] = "done" /\ pc[d] = "done"
          /\ request[c] = request[d] /\ http[c] = http[d])
         => (sent[c] = sent[d] /\ outcome[c] = outcome[d])

C10_NoCallBlocksAnother ==
  \A c \in Calls :
    /\ pc[c] = "idle" =>
         \A name \in ToolNames, arguments \in ConcArguments :
           ENABLED CallTool(c, name, arguments)
    /\ pc[c] = "awaiting" =>
         /\ \A response \in FewResponses : ENABLED RequestCompletes(c, response, 0)
         /\ \A error \in Errors : ENABLED RequestFails(c, error)

\* C10: calls share no mutable state: the request and the result of each
\* call are those it gives as the only call of the process, whatever the
\* other calls are and however they interleave; the configuration is never
\* modified, and no call keeps another from starting or finishing.
C10_Independence ==
  /\ [](C10_OwnInputsOnly /\ C10_NoCallBlocksAnother)
  /\ [][env' = env /\ axiosInstance' = axiosInstance]_vars

\* The second call was received and completed while the first was suspended
C10_Witness ==
  /\ pc[1] = "awaiting"
  /\ Get(ArgsOf(1), "headers") = HeaderMap("Accept", Str("json"))
  /\ pc[2] = "done" /\ Returned(2)
  /\ Get(ArgsOf(2), "method") = Str("POST")
  /\ "Accept" \notin DOMAIN SentHeaders(2)

====
